---- MODULE Spec2Model ----
(***************************************************************************)
(* A model of mssql_dataframe's write path:                                *)
(*   - core/write/merge.py      merge.merge, the dynamic MERGE statement   *)
(*   - core/conversion.py       _precheck_dataframe and its checks,        *)
(*                              prepare_values and its prepare_* steps     *)
(*   - core/conversion_rules.py the registry of SQL types                  *)
(*                                                                         *)
(* A text is the sequence of the string pieces the Python code             *)
(* concatenates ("a" + x + "b" is <<"a", x, "b">>), so two texts are equal *)
(* exactly when they are built from the same pieces in the same order.     *)
(* Each operation is a sequence of steps, one action per step, ordered by  *)
(* pc.  Three specifications share the variables: SpecMerge, SpecCoerce    *)
(* and SpecPrepare, one for each operation.                                *)
(***************************************************************************)
EXTENDS Integers, Sequences, FiniteSets, TLC

VARIABLES
    pc,         \* position in the running operation
    err,        \* the exception that ended it: its type and the columns it names
    call,       \* merge: the arguments of the call and the writer's setting
    db,         \* merge: the database (target table, staging table, log)
    statement,  \* merge: the parts of the statement given to cursor.execute
    args,       \* merge: the parameters bound to the statement's ? markers
    schema,     \* conversion: column name -> schema entry
    dataframe,  \* the caller's table
    prepped,    \* prepare_values: the working copy rendered for the wire
    warnings    \* prepare_values: the columns named by each logger.warning

vars == <<pc, err, call, db, statement, args, schema, dataframe, prepped, warnings>>

Unused == <<>>

Raised(type, columns) == [type |-> type, columns |-> columns]

NoError == Raised("none", <<>>)

Range(s) == {s[i] : i \in 1..Len(s)}

IsInjective(s) == \A i, j \in 1..Len(s) : s[i] = s[j] => i = j

RECURSIVE Join(_, _)
\* sep.join(texts): the texts with the piece sep between neighbours
Join(sep, texts) ==
    IF texts = <<>> THEN <<>>
    ELSE IF Len(texts) = 1 THEN texts[1]
    ELSE texts[1] \o <<sep>> \o Join(sep, Tail(texts))

(***************************************************************************)
(* merge.merge (core/write/merge.py)                                       *)
(***************************************************************************)

\* bounds of the merge model
MaxTarget == 1
MaxBatch == 2

NULL == -1
Vals == {0, 1}
TableColumns == <<"k", "g", "h">>
TargetName == "SomeTable"
TempName == "#SomeTable_merge"

\* the dataframes handed to merge: the named index and the columns
Frames ==
    { [index |-> <<>>, columns |-> <<"k">>],
      [index |-> <<"k">>, columns |-> <<"g">>],
      [index |-> <<"k">>, columns |-> <<"g", "h">>] }

FrameColumns(f) == f.index \o f.columns

NotGiven == [given |-> FALSE, cols |-> <<>>]
Given(cols) == [given |-> TRUE, cols |-> cols]

MatchOptions(f) ==
    {NotGiven : x \in {1} \cap (IF f.index # <<>> THEN {1} ELSE {})}
    \cup {Given(m) : m \in {c \in {<<"k">>, <<"k", "g">>} :
                              /\ Range(c) \subseteq Range(FrameColumns(f))
                              /\ (f.index # <<>> => c # f.index)}}

DeleteOptions(f) ==
    {NotGiven}
    \cup {Given(d) : d \in {c \in {<<>>, <<"g">>, <<"g", "h">>} :
                              Range(c) \subseteq Range(FrameColumns(f))}}

BoundedSubsets(S, n) == {T \in SUBSET S : Cardinality(T) <= n}

Calls ==
    UNION {
        { [table_name |-> TargetName,
           frame |-> f,
           match_columns |-> m,
           upsert |-> u,
           delete_requires |-> d,
           include_metadata_timestamps |-> t] :
          m \in MatchOptions(f), d \in DeleteOptions(f),
          u \in BOOLEAN, t \in BOOLEAN } : f \in Frames }

Digits == <<"0", "1", "2", "3", "4", "5", "6", "7", "8", "9">>

\* str(x) for the x of range(0, len(columns))
str(x) == Digits[x + 1]

aliasByName(columns) == columns

\* merge.py:100-106  [str(x) for x in list(range(0, len(columns)))]
alias(columns) == [i \in 1..Len(columns) |-> str(i - 1)]

\* merge.py:91  the dataframe's columns that are no match column
update_columns(f, match_columns) ==
    SelectSeq(f.columns, LAMBDA c : c \notin Range(match_columns))

\* merge.py:94-97
insert_columns(f) ==
    IF f.index # <<>> THEN f.index \o f.columns ELSE f.columns

\* merge.py:103-106
alias_conditions(delete_requires) ==
    IF ~delete_requires.given THEN <<>> ELSE alias(delete_requires.cols)

Each(al, f) == [i \in 1..Len(al) |-> f[al[i]]]

\* merge.py:109-113
declare(am, au, ai, ac) ==
    Join("\n",
         Each(am, [x \in Range(am) |-> <<"DECLARE @Match_", x, " SYSNAME = ?;">>])
         \o Each(au, [x \in Range(au) |-> <<"DECLARE @Update_", x, " SYSNAME = ?;">>])
         \o Each(ai, [x \in Range(ai) |-> <<"DECLARE @Insert_", x, " SYSNAME = ?;">>])
         \o Each(ac, [x \in Range(ac) |-> <<"DECLARE @Subset_", x, " SYSNAME = ?;">>]))

\* merge.py:116-119
match_syntax(am) ==
    LET quoted == Each(am, [x \in Range(am) |-> <<"QUOTENAME(@Match_", x, ")">>])
    IN  Join("+' AND '+",
             Each(quoted, [x \in Range(quoted) |->
                             <<"'_target.'+">> \o x \o <<"+'=_source.'+">> \o x]))

\* merge.py:122-125
update_syntax(au, include_metadata_timestamps) ==
    LET quoted == Each(au, [x \in Range(au) |-> <<"QUOTENAME(@Update_", x, ")">>])
        joined ==
            Join("+','+",
                 Each(quoted, [x \in Range(quoted) |-> x \o <<"+'=_source.'+">> \o x]))
    IN  IF include_metadata_timestamps
        THEN <<"+'_time_update=GETDATE(), '+">> \o joined
        ELSE joined

\* merge.py:128-130, 134-135
insert_syntax(ai, include_metadata_timestamps) ==
    LET joined ==
            Join("+','+", Each(ai, [x \in Range(ai) |-> <<"QUOTENAME(@Insert_", x, ")">>]))
    IN  IF include_metadata_timestamps
        THEN <<"+'_time_insert, '+">> \o joined
        ELSE joined

\* merge.py:131-133, 136
insert_values(ai, include_metadata_timestamps) ==
    LET joined ==
            Join("+','+",
                 Each(ai, [x \in Range(ai) |-> <<"'_source.'+QUOTENAME(@Insert_", x, ")">>]))
    IN  IF include_metadata_timestamps
        THEN <<"+'GETDATE(), '+">> \o joined
        ELSE joined

delete_syntax_always(upsert, ac) ==
    <<"' WHEN NOT MATCHED BY SOURCE '+">>
    \o Join(" + ",
            Each(ac, [x \in Range(ac) |->
                <<"'AND _target.'+QUOTENAME(@Subset_", x,
                  ")+' IN (SELECT '+QUOTENAME(@Subset_", x,
                  ")+' FROM '+QUOTENAME(@TableTemp)+')'">>]))
    \o <<"+' THEN DELETE'">>

delete_syntax_unconditional(upsert, ac) ==
    IF ~upsert
    THEN <<"' WHEN NOT MATCHED BY SOURCE '+">> \o <<"+' THEN DELETE'">>
    ELSE <<"''">>

\* merge.py:138-154
delete_syntax(upsert, ac) ==
    IF ~upsert
    THEN <<"' WHEN NOT MATCHED BY SOURCE '+">>
         \o Join(" + ",
                 Each(ac, [x \in Range(ac) |->
                     <<"'AND _target.'+QUOTENAME(@Subset_", x,
                       ")+' IN (SELECT '+QUOTENAME(@Subset_", x,
                       ")+' FROM '+QUOTENAME(@TableTemp)+')'">>]))
         \o <<"+' THEN DELETE'">>
    ELSE <<"''">>

\* merge.py:157-161
parameters(am, au, ai, ac) ==
    Join(", ",
         Each(am, [x \in Range(am) |-> <<"@Match_", x, " SYSNAME">>])
         \o Each(au, [x \in Range(au) |-> <<"@Update_", x, " SYSNAME">>])
         \o Each(ai, [x \in Range(ai) |-> <<"@Insert_", x, " SYSNAME">>])
         \o Each(ac, [x \in Range(ac) |-> <<"@Subset_", x, " SYSNAME">>]))

\* merge.py:164-168
values(am, au, ai, ac) ==
    Join(", ",
         Each(am, [x \in Range(am) |-> <<"@Match_", x, "=@Match_", x>>])
         \o Each(au, [x \in Range(au) |-> <<"@Update_", x, "=@Update_", x>>])
         \o Each(ai, [x \in Range(ai) |-> <<"@Insert_", x, "=@Insert_", x>>])
         \o Each(ac, [x \in Range(ac) |-> <<"@Subset_", x, "=@Subset_", x>>]))

\* merge.py:69-88, 171-180  the template's fields after statement.format
Statement(match_columns, f, upsert, delete_requires, include_metadata_timestamps) ==
    LET am == alias(match_columns)
        au == alias(update_columns(f, match_columns))
        ai == alias(insert_columns(f))
        ac == alias_conditions(delete_requires)
    IN  [declare |-> declare(am, au, ai, ac),
         match_syntax |-> match_syntax(am),
         update_syntax |-> update_syntax(au, include_metadata_timestamps),
         insert_syntax |-> insert_syntax(ai, include_metadata_timestamps),
         insert_values |-> insert_values(ai, include_metadata_timestamps),
         delete_syntax |-> delete_syntax(upsert, ac),
         parameters |-> parameters(am, au, ai, ac),
         values |-> values(am, au, ai, ac)]

ArgsInsertFirst(table_name, temp_name, match_columns, f, delete_requires) ==
    <<table_name, temp_name>> \o match_columns
    \o insert_columns(f) \o update_columns(f, match_columns)
    \o delete_requires.cols

\* merge.py:183-197
Args(table_name, temp_name, match_columns, f, delete_requires) ==
    IF ~delete_requires.given
    THEN <<table_name, temp_name>> \o match_columns
         \o update_columns(f, match_columns) \o insert_columns(f)
    ELSE <<table_name, temp_name>> \o match_columns
         \o update_columns(f, match_columns) \o insert_columns(f)
         \o delete_requires.cols

NoStatement == [declare |-> <<>>, match_syntax |-> <<>>, update_syntax |-> <<>>,
                insert_syntax |-> <<>>, insert_values |-> <<>>,
                delete_syntax |-> <<>>, parameters |-> <<>>, values |-> <<>>]

(***************************************************************************)
(* The statement as the database engine reads it.  The engine binds the ?  *)
(* markers to args in order (@TableName, @TableTemp, then each DECLARE),   *)
(* evaluates every QUOTENAME(@variable) to the identifier held by the      *)
(* variable, and runs the MERGE that the concatenation spells.             *)
(***************************************************************************)

\* the variable family a DECLARE piece of merge.py:109-112 introduces
DeclFamily(p) ==
    CASE p = "DECLARE @Match_" -> "Match"
      [] p = "DECLARE @Update_" -> "Update"
      [] p = "DECLARE @Insert_" -> "Insert"
      [] p = "DECLARE @Subset_" -> "Subset"
      [] OTHER -> "none"

\* the variable family a QUOTENAME piece of merge.py:116-148 refers to
RefFamily(p) ==
    CASE p = "QUOTENAME(@Match_" -> "Match"
      [] p = "QUOTENAME(@Update_" -> "Update"
      [] p = "QUOTENAME(@Insert_" -> "Insert"
      [] p = "'_source.'+QUOTENAME(@Insert_" -> "Insert"
      [] p = "'AND _target.'+QUOTENAME(@Subset_" -> "Subset"
      [] p = ")+' IN (SELECT '+QUOTENAME(@Subset_" -> "Subset"
      [] OTHER -> "none"

\* the variables <<family, alias>> a text names, in the order it names them
VarsOf(text, declaring) ==
    LET Family(piece) == IF declaring THEN DeclFamily(piece) ELSE RefFamily(piece)
        idx == SelectSeq([i \in 1..Len(text) |-> i],
                         LAMBDA i : i < Len(text) /\ Family(text[i]) # "none")
    IN  [j \in 1..Len(idx) |-> <<Family(text[idx[j]]), text[idx[j] + 1]>>]

Declared(stmt) == VarsOf(stmt.declare, TRUE)

\* the ? markers of the statement: two in the template, one per DECLARE
Markers(stmt) == 2 + Len(Declared(stmt))

PositionOf(v, s) == CHOOSE i \in 1..Len(s) : s[i] = v

\* the identifier bound to variable v
BoundTo(stmt, a, v) == a[2 + PositionOf(v, Declared(stmt))]

Resolved(stmt, a, text) ==
    LET vs == VarsOf(text, FALSE)
    IN  [i \in 1..Len(vs) |-> BoundTo(stmt, a, vs[i])]

Odd(s) == [i \in 1..((Len(s) + 1) \div 2) |-> s[2 * i - 1]]
Even(s) == [i \in 1..(Len(s) \div 2) |-> s[2 * i]]

HasDelete(stmt) == "+' THEN DELETE'" \in Range(stmt.delete_syntax)

SqlEq(a, b) == a # NULL /\ b # NULL /\ a = b

\* ON (_target.[x]=_source.[y] AND ...)
Matches(t, s, tcols, scols) ==
    \A i \in 1..Len(tcols) : SqlEq(t[tcols[i]], s[scols[i]])

SetToSeq(S) == CHOOSE s \in [1..Cardinality(S) -> S] : IsInjective(s)

\* the statement is one the engine accepts for these tables
WellFormed(stmt, a, d) ==
    LET D == Declared(stmt)
        refs == VarsOf(stmt.match_syntax, FALSE)
                \o VarsOf(stmt.update_syntax, FALSE)
                \o VarsOf(stmt.insert_syntax, FALSE)
                \o VarsOf(stmt.insert_values, FALSE)
                \o VarsOf(stmt.delete_syntax, FALSE)
    IN  /\ Len(a) = Markers(stmt)
        /\ IsInjective(D)
        /\ Range(refs) \subseteq Range(D)
        /\ d.staging.exists
        /\ a[1] = d.table_name
        /\ a[2] = d.staging.name
        /\ LET m == Resolved(stmt, a, stmt.match_syntax)
               u == Resolved(stmt, a, stmt.update_syntax)
               ins == Resolved(stmt, a, stmt.insert_syntax)
               val == Resolved(stmt, a, stmt.insert_values)
               del == Resolved(stmt, a, stmt.delete_syntax)
               scols == Range(d.staging.columns)
               tcols == Range(TableColumns)
           IN  /\ m # <<>> /\ u # <<>> /\ ins # <<>>
               /\ Len(ins) = Len(val)
               /\ Range(Odd(m)) \cup Range(Odd(u)) \cup Range(ins)
                      \cup Range(Odd(del)) \subseteq tcols
               /\ Range(Even(m)) \cup Range(Even(u)) \cup Range(val)
                      \cup Range(Even(del)) \subseteq scols
               /\ IsInjective(Odd(u)) /\ IsInjective(ins)
               \* a target row matched by two source rows fails the MERGE
               /\ \A i \in 1..Len(d.target) :
                     Cardinality({s \in d.staging.rows :
                         Matches(d.target[i], s, Odd(m), Even(m))}) <= 1

\* the target table after the MERGE of a well-formed statement
Merged(stmt, a, d) ==
    LET m == Resolved(stmt, a, stmt.match_syntax)
        u == Resolved(stmt, a, stmt.update_syntax)
        ins == Resolved(stmt, a, stmt.insert_syntax)
        val == Resolved(stmt, a, stmt.insert_values)
        del == Resolved(stmt, a, stmt.delete_syntax)
        src(t) == {s \in d.staging.rows : Matches(t, s, Odd(m), Even(m))}
        updated(t, s) ==
            [c \in DOMAIN t |->
                IF c \in Range(Odd(u))
                THEN s[Even(u)[PositionOf(c, Odd(u))]]
                ELSE t[c]]
        \* WHEN NOT MATCHED BY SOURCE AND _target.[x] IN (SELECT [y] FROM staging) ...
        deleted(t) ==
            /\ HasDelete(stmt)
            /\ \A i \in 1..Len(Odd(del)) :
                  \E s \in d.staging.rows :
                      SqlEq(t[Odd(del)[i]], s[Even(del)[i]])
        kept == SelectSeq(d.target, LAMBDA t : src(t) # {} \/ ~deleted(t))
        after == [i \in 1..Len(kept) |->
                     IF src(kept[i]) # {}
                     THEN updated(kept[i], CHOOSE s \in src(kept[i]) : TRUE)
                     ELSE kept[i]]
        fresh == SetToSeq({s \in d.staging.rows :
                     \A i \in 1..Len(d.target) :
                         ~Matches(d.target[i], s, Odd(m), Even(m))})
        inserted == [i \in 1..Len(fresh) |->
                        [c \in Range(TableColumns) \cup {"rid"} |->
                            IF c = "rid" THEN Len(d.target) + i
                            ELSE IF c \in Range(ins)
                            THEN fresh[i][val[PositionOf(c, ins)]]
                            ELSE NULL]]
    IN  after \o inserted

(***************************************************************************)
(* The steps of merge.merge                                                *)
(***************************************************************************)

NoStaging == [exists |-> FALSE, name |-> "", columns |-> <<>>, rows |-> {}]

\* the rows of the target table: its columns and the row's identity rid
TargetRows(n) ==
    {[c \in Range(TableColumns) \cup {"rid"} |-> IF c = "rid" THEN n ELSE r[c]] :
        r \in [Range(TableColumns) -> Vals]}

\* the contents of the target table before the call.  A table has no order
\* of its own, so one listing stands for each collection of rows: the one
\* with the rows in the order of their values.
Targets ==
    UNION {{t \in [1..n -> UNION {TargetRows(i) : i \in 1..n}] :
               /\ \A i \in 1..n : t[i].rid = i
               /\ \A i, j \in 1..n :
                     i < j => \/ t[i].k < t[j].k
                              \/ t[i].k = t[j].k /\ t[i].g < t[j].g
                              \/ t[i].k = t[j].k /\ t[i].g = t[j].g
                                 /\ t[i].h <= t[j].h} : n \in 0..MaxTarget}

InitMerge ==
    /\ pc = "start"
    /\ err = NoError
    /\ call \in Calls
    /\ dataframe \in BoundedSubsets([Range(FrameColumns(call.frame)) -> Vals], MaxBatch)
    /\ \E t \in Targets :
          db = [table_name |-> TargetName, target |-> t, initial |-> t,
                staging |-> NoStaging, log |-> <<>>]
    /\ statement = NoStatement
    /\ args = <<>>
    /\ schema = Unused
    /\ prepped = Unused
    /\ warnings = Unused

InvalidInputsInverted(delete_requires, upsert) ==
    delete_requires.given /\ ~upsert

\* merge.py:50  delete_requires is not None and upsert
InvalidInputs(delete_requires, upsert) ==
    delete_requires.given /\ upsert

\* merge.py:49-54
MergeCheckInputs ==
    /\ pc = "start"
    /\ IF InvalidInputs(call.delete_requires, call.upsert)
       THEN pc' = "raised" /\ err' = Raised("ValueError", <<>>)
       ELSE pc' = "checked" /\ err' = err
    /\ UNCHANGED <<call, db, statement, args, schema, dataframe, prepped, warnings>>

\* merge.py:57
MergeCursor ==
    /\ pc = "checked"
    /\ pc' = "cursor"
    /\ db' = [db EXCEPT !.log = @ \o <<"cursor">>]
    /\ UNCHANGED <<err, call, statement, args, schema, dataframe, prepped, warnings>>

\* insert._source_table, called at merge.py:60-66: reads the target's schema,
\* resolves match_columns, creates the staging table and inserts the dataframe
SourceTable(c, d, rows) ==
    [match_columns |->
        IF c.match_columns.given THEN c.match_columns.cols ELSE c.frame.index,
     temp_name |-> TempName,
     db |-> [d EXCEPT
                !.staging = [exists |-> TRUE, name |-> TempName,
                             columns |-> FrameColumns(c.frame), rows |-> rows],
                !.log = @ \o <<"get_schema", "execute CREATE TABLE",
                                  "executemany INSERT", "commit">>]]

MergeSourceTable ==
    /\ pc = "cursor"
    /\ LET r == SourceTable(call, db, dataframe)
       IN  /\ call' = [call EXCEPT !.match_columns = Given(r.match_columns)]
           /\ db' = r.db
    /\ pc' = "staged"
    /\ UNCHANGED <<err, statement, args, schema, dataframe, prepped, warnings>>

\* merge.py:68-200
MergeExecute ==
    /\ pc = "staged"
    /\ LET stmt == Statement(call.match_columns.cols, call.frame, call.upsert,
                             call.delete_requires, call.include_metadata_timestamps)
           a == Args(call.table_name, db.staging.name, call.match_columns.cols,
                     call.frame, call.delete_requires)
       IN  /\ statement' = stmt
           /\ args' = a
           /\ IF WellFormed(stmt, a, db)
              THEN /\ db' = [db EXCEPT !.target = Merged(stmt, a, db),
                                       !.log = @ \o <<"execute MERGE">>]
                   /\ pc' = "merged"
                   /\ err' = err
              ELSE /\ db' = [db EXCEPT !.log = @ \o <<"execute MERGE">>]
                   /\ pc' = "raised"
                   /\ err' = Raised("pyodbc.Error", <<>>)
    /\ UNCHANGED <<call, schema, dataframe, prepped, warnings>>

\* merge.py:201-202
MergeDrop ==
    /\ pc = "merged"
    /\ db' = [db EXCEPT !.staging = NoStaging, !.log = @ \o <<"execute DROP TABLE">>]
    /\ pc' = "dropped"
    /\ UNCHANGED <<err, call, statement, args, schema, dataframe, prepped, warnings>>

\* merge.py:203-205
MergeCommit ==
    /\ pc = "dropped"
    /\ db' = [db EXCEPT !.log = @ \o <<"commit">>]
    /\ pc' = "done"
    /\ UNCHANGED <<err, call, statement, args, schema, dataframe, prepped, warnings>>

NextMerge ==
    \/ MergeCheckInputs
    \/ MergeCursor
    \/ MergeSourceTable
    \/ MergeExecute
    \/ MergeDrop
    \/ MergeCommit

SpecMerge == InitMerge /\ [][NextMerge]_vars

(***************************************************************************)
(* Properties of merge.merge                                               *)
(***************************************************************************)

AfterMerge == pc \in {"merged", "dropped", "done"}

\* the match columns _source_table settles on for a call
MatchOf(c) ==
    IF c.match_columns.given THEN c.match_columns.cols ELSE c.frame.index

GuardsOf(c) == c.delete_requires.cols

\* the numbers and flags the statement text may depend on
Shape(c) ==
    <<Len(MatchOf(c)), Len(update_columns(c.frame, MatchOf(c))),
      Len(insert_columns(c.frame)), Len(GuardsOf(c)),
      c.upsert, c.include_metadata_timestamps>>

StatementOf(c) ==
    Statement(MatchOf(c), c.frame, c.upsert, c.delete_requires,
              c.include_metadata_timestamps)

ArgsOf(c, temp_name) ==
    Args(c.table_name, temp_name, MatchOf(c), c.frame, c.delete_requires)

\* other names for the table and the columns, hostile ones among them
Renamings ==
    { [SomeTable |-> "Other", k |-> "x", g |-> "y", h |-> "z"],
      [SomeTable |-> "SomeTable", k |-> "h", g |-> "k", h |-> "g"],
      [SomeTable |-> "t]; DROP TABLE t; --", k |-> "k]=1 OR 1=1; --",
       g |-> "g'; --", h |-> "@Match_0"] }

Mapped(s, r) == [i \in 1..Len(s) |-> r[s[i]]]

Renamed(c, r) ==
    [table_name |-> r[c.table_name],
     frame |-> [index |-> Mapped(c.frame.index, r),
                columns |-> Mapped(c.frame.columns, r)],
     match_columns |-> [given |-> c.match_columns.given,
                        cols |-> Mapped(c.match_columns.cols, r)],
     upsert |-> c.upsert,
     delete_requires |-> [given |-> c.delete_requires.given,
                          cols |-> Mapped(c.delete_requires.cols, r)],
     include_metadata_timestamps |-> c.include_metadata_timestamps]

Pieces(stmt) ==
    Range(stmt.declare) \cup Range(stmt.match_syntax) \cup Range(stmt.update_syntax)
    \cup Range(stmt.insert_syntax) \cup Range(stmt.insert_values)
    \cup Range(stmt.delete_syntax) \cup Range(stmt.parameters) \cup Range(stmt.values)

Identifiers(c, temp_name) ==
    {c.table_name, temp_name} \cup Range(FrameColumns(c.frame))
    \cup Range(MatchOf(c)) \cup Range(GuardsOf(c))

\* C1: the text given to the MERGE cursor.execute depends only on the numbers
\* of match, update, insert and delete-guard columns, the upsert flag and the
\* metadata-timestamp setting: every call of the same shape, and the same call
\* with the table and the columns renamed, yields the same text, no piece of
\* the text is an identifier of the call, and the identifiers are all in args.
\* It is stated where cursor.execute has just been given the text.
C1_StatementTextIndependentOfIdentifiers ==
    (pc \in {"merged", "raised"} /\ statement # NoStatement) =>
        /\ \A c \in Calls : Shape(c) = Shape(call) => StatementOf(c) = statement
        /\ \A r \in Renamings :
              /\ StatementOf(Renamed(call, r)) = statement
              /\ Pieces(StatementOf(Renamed(call, r)))
                    \cap Identifiers(Renamed(call, r), "#Other_merge") = {}
              /\ ArgsOf(Renamed(call, r), TempName)
                    = [i \in 1..Len(args) |-> IF i = 2 THEN args[2] ELSE r[args[i]]]
        /\ Pieces(statement) \cap Identifiers(call, TempName) = {}
        /\ Identifiers(call, TempName) \subseteq Range(args)

C1_Witness ==
    /\ pc = "merged"
    /\ call.delete_requires.given /\ Len(GuardsOf(call)) = 2
    /\ Len(MatchOf(call)) = 2
    /\ Len(args) = 10
    /\ dataframe # {}

\* no row of the batch equals the target row t on the match columns
Unmatched(t) ==
    ~ \E s \in dataframe : \A c \in Range(MatchOf(call)) : s[c] = t[c]

Present(t) == \E r \in Range(db.target) : r.rid = t.rid

Untouched(t) == \E r \in Range(db.target) : r = t

\* C2: after a merge with upsert=False and a non-empty delete_requires, a
\* target row that no row of the batch matches is deleted iff each of its
\* delete-guard values is the value of some row of the batch in that column;
\* otherwise it is left as it was.
C2_DeleteOnlyWhereGuardsMatch ==
    (AfterMerge /\ ~call.upsert /\ call.delete_requires.given
         /\ GuardsOf(call) # <<>>) =>
        \A t \in Range(db.initial) :
            Unmatched(t) =>
                /\ ~Present(t) <=>
                      \A c \in Range(GuardsOf(call)) :
                          \E s \in dataframe : s[c] = t[c]
                /\ Present(t) => Untouched(t)

C2_Witness ==
    /\ pc = "done"
    /\ ~call.upsert
    /\ GuardsOf(call) = <<"g", "h">>
    /\ \E t \in Range(db.initial) :
          /\ Unmatched(t)
          /\ ~Present(t)
          /\ ~ \E s \in dataframe : s["g"] = t["g"] /\ s["h"] = t["h"]

C2_WitnessKept ==
    /\ pc = "done"
    /\ ~call.upsert
    /\ GuardsOf(call) # <<>>
    /\ dataframe # {}
    /\ \E t \in Range(db.initial) : Unmatched(t) /\ Untouched(t)

\* C3: merge with upsert=True and a delete_requires list raises ValueError
\* before a cursor is opened, the schema read, a staging table created or a
\* statement executed or committed, and the target table is unchanged.
C3_ConfigurationErrorBeforeAnyStatement ==
    (call.upsert /\ call.delete_requires.given) =>
        \/ pc = "start"
        \/ /\ pc = "raised"
           /\ err.type = "ValueError"
           /\ db.log = <<>>
           /\ ~db.staging.exists
           /\ db.target = db.initial
           /\ statement = NoStatement
           /\ args = <<>>

C3_Witness ==
    /\ pc = "raised"
    /\ err.type = "ValueError"
    /\ call.upsert
    /\ GuardsOf(call) # <<>>
    /\ db.initial # <<>>

\* the target row t after WHEN MATCHED THEN UPDATE from the batch row s
UpdatedFrom(t, s) ==
    [c \in DOMAIN t |->
        IF c \in Range(update_columns(call.frame, MatchOf(call))) THEN s[c] ELSE t[c]]

\* C4: a merge with upsert=True never deletes a target row: the statement
\* has no WHEN NOT MATCHED BY SOURCE ... DELETE clause, and every row of the
\* target before the merge is still there after it, updated from the batch
\* row that matches it, untouched if none does.
C4_UpsertNeverDeletes ==
    call.upsert =>
        /\ AfterMerge => Range(statement.delete_syntax) = {"''"}
        /\ \A t \in Range(db.initial) :
              /\ Present(t)
              /\ Unmatched(t) => Untouched(t)
              /\ (AfterMerge /\ ~Unmatched(t)) =>
                    \E s \in dataframe :
                        /\ \A c \in Range(MatchOf(call)) : s[c] = t[c]
                        /\ \E r \in Range(db.target) : r = UpdatedFrom(t, s)

C4_Witness ==
    /\ call.upsert
    /\ pc = "done"
    /\ \E t \in Range(db.initial) : Unmatched(t) /\ Untouched(t)
    /\ Len(db.target) > Len(db.initial)

(***************************************************************************)
(* Values (core/conversion.py, core/conversion_rules.py)                   *)
(*                                                                         *)
(* A number is a tuple of digits, most significant first, the first digit  *)
(* signed and the others in 0..radix-1, so that the order of the numbers   *)
(* is the lexicographic order of the tuples and no digit leaves TLC's      *)
(* 32-bit integers:                                                        *)
(*   an integer      <<a, b, c>>        a * 2^42 + b * 2^21 + c            *)
(*   a pd.Timedelta  <<d, s, us, ns>>   days, seconds, microseconds and    *)
(*                                      nanoseconds, as pandas holds them  *)
(* A string is the sequence of its characters' code points.  A cell of a   *)
(* column is null or holds a value.                                        *)
(***************************************************************************)

Base == 2^21

IntRadix == <<0, Base, Base>>
TimedeltaRadix == <<0, 86400, 1000000, 1000>>

RadixOf(v) == IF Len(v) = 3 THEN IntRadix ELSE TimedeltaRadix

\* the integer n, for -2^21 <= n < 2^21
IntV(n) == IF n < 0 THEN <<-1, Base - 1, Base + n>> ELSE <<0, 0, n>>

RECURSIVE LexLess(_, _)
\* x < y
LexLess(x, y) ==
    IF x = <<>> THEN FALSE
    ELSE IF x[1] # y[1] THEN x[1] < y[1]
    ELSE LexLess(Tail(x), Tail(y))

RECURSIVE IncR(_, _)
\* v + 1 in its last digit
IncR(v, radix) ==
    LET n == Len(v)
    IN  IF n = 1 \/ v[n] + 1 < radix[n]
        THEN [v EXCEPT ![n] = @ + 1]
        ELSE IncR(SubSeq(v, 1, n - 1), SubSeq(radix, 1, n - 1)) \o <<0>>

RECURSIVE DecR(_, _)
\* v - 1 in its last digit
DecR(v, radix) ==
    LET n == Len(v)
    IN  IF n = 1 \/ v[n] > 0
        THEN [v EXCEPT ![n] = @ - 1]
        ELSE DecR(SubSeq(v, 1, n - 1), SubSeq(radix, 1, n - 1)) \o <<radix[n] - 1>>

Inc(v) == IncR(v, RadixOf(v))
Dec(v) == DecR(v, RadixOf(v))

Null == [null |-> TRUE, v |-> <<>>]
Value(v) == [null |-> FALSE, v |-> v]

IsAscii(ch) == ch < 128

\* conversion_rules.py:5-120  the sql_type of each record of rules, in the
\* order of the records
sql_types ==
    <<"bit", "tinyint", "smallint", "int", "bigint", "float", "time",
      "date", "datetime2", "varchar", "nvarchar">>

\* conversion_rules.py:5-118  rules, keyed by sql_type.  The bounds of float,
\* date and datetime2 are kept as the expressions of the source.
rules ==
    [t \in Range(sql_types) |->
        CASE t = "bit" ->
                [sql_category |-> "boolean",
                 min_value |-> IntV(0), max_value |-> IntV(1),
                 pandas_type |-> "boolean"]
          [] t = "tinyint" ->
                [sql_category |-> "exact numeric",
                 min_value |-> IntV(0), max_value |-> IntV(255),
                 pandas_type |-> "UInt8"]
          [] t = "smallint" ->
                [sql_category |-> "exact numeric",
                 min_value |-> IntV(-(2^15)), max_value |-> IntV(2^15 - 1),
                 pandas_type |-> "Int16"]
          [] t = "int" ->
                \* -(2 ** 31) and 2 ** 31 - 1
                [sql_category |-> "exact numeric",
                 min_value |-> <<-1, Base - 2^10, 0>>,
                 max_value |-> <<0, 2^10 - 1, Base - 1>>,
                 pandas_type |-> "Int32"]
          [] t = "bigint" ->
                \* -(2 ** 63) and 2 ** 63 - 1
                [sql_category |-> "exact numeric",
                 min_value |-> <<-Base, 0, 0>>,
                 max_value |-> <<Base - 1, Base - 1, Base - 1>>,
                 pandas_type |-> "Int64"]
          [] t = "float" ->
                [sql_category |-> "approximate numeric",
                 min_value |-> <<"-(1.79 ** 308)">>,
                 max_value |-> <<"1.79 ** 308">>,
                 pandas_type |-> "float64"]
          [] t = "time" ->
                \* pd.Timedelta("00:00:00.0000000"), pd.Timedelta("23:59:59.9999999")
                [sql_category |-> "date time",
                 min_value |-> <<0, 0, 0, 0>>,
                 max_value |-> <<0, 86399, 999999, 900>>,
                 pandas_type |-> "timedelta64[ns]"]
          [] t = "date" ->
                [sql_category |-> "date time",
                 min_value |-> <<"pd.Timestamp((pd.Timestamp.min + pd.Timedelta(days=1)).date())">>,
                 max_value |-> <<"pd.Timestamp(pd.Timestamp.max.date())">>,
                 pandas_type |-> "datetime64[ns]"]
          [] t = "datetime2" ->
                [sql_category |-> "date time",
                 min_value |-> <<"pd.Timestamp.min">>,
                 max_value |-> <<"pd.Timestamp.max">>,
                 pandas_type |-> "datetime64[ns]"]
          [] t = "varchar" ->
                [sql_category |-> "character string",
                 min_value |-> IntV(1), max_value |-> IntV(0),
                 pandas_type |-> "string"]
          [] t = "nvarchar" ->
                [sql_category |-> "character string",
                 min_value |-> IntV(1), max_value |-> IntV(0),
                 pandas_type |-> "string"]]

(***************************************************************************)
(* _precheck_dataframe (core/conversion.py)                                *)
(***************************************************************************)

\* bounds of the coercion model
MaxRows == 2
MaxStrLen == 2

\* the registry types with a lower and an upper bound on the values
BoundedTypes == {"bit", "tinyint", "smallint", "int", "bigint", "time"}
StringTypes == {"varchar", "nvarchar"}

Chars == {97, 233}      \* "a" and "é"
Strings == UNION {[1..n -> Chars] : n \in 0..MaxStrLen}

\* the cells a column of sql_type t is filled from; a column of float, date
\* or datetime2, whose values are not modelled, holds nulls only
Cells(t) ==
    {Null} \cup
    IF t \in StringTypes
    THEN {Value(x) : x \in Strings}
    ELSE IF t \in BoundedTypes
    THEN {Value(x) : x \in {Dec(rules[t].min_value), rules[t].min_value,
                            rules[t].max_value, Inc(rules[t].max_value)}}
    ELSE {}

\* the dtypes a column of sql_type t arrives with
Dtypes(t) == IF t \in StringTypes THEN {"object", "string"} ELSE {"object"}

\* the declared sizes: cursor.columns' column_size
Sizes(t) == IF t \in StringTypes THEN {1, 2} ELSE {0}

\* conversion.py:92-141  a column's row of get_schema's result: the column as
\* introspected, joined with its sql_type's row of rules
SchemaEntry(t, size, nullable, pk) ==
    [sql_type |-> t, column_size |-> size, is_nullable |-> nullable,
     pk_seq |-> pk,
     sql_category |-> rules[t].sql_category,
     min_value |-> rules[t].min_value, max_value |-> rules[t].max_value,
     pandas_type |-> rules[t].pandas_type]

\* the key column b, when the table has one: a tinyint primary key
KeyColumn(n, v) ==
    [dtype |-> "object", cells |-> [i \in 1..n |-> Value(IntV(v))]]

InitCoerce ==
    /\ pc = "start"
    /\ err = NoError
    /\ \E n \in 1..MaxRows, t \in Range(sql_types), nullable \in BOOLEAN :
          \E size \in Sizes(t), dt \in Dtypes(t), cells \in [1..n -> Cells(t)],
             b \in {"absent", "in range", "too large"} :
              LET a == [dtype |-> dt, cells |-> cells]
              IN  IF b = "absent"
                  THEN /\ schema = [c \in {"a"} |-> SchemaEntry(t, size, nullable, NULL)]
                       /\ dataframe = [index |-> <<>>, columns |-> <<"a">>,
                                       data |-> [c \in {"a"} |-> a]]
                  ELSE /\ schema = [c \in {"a", "b"} |->
                                       IF c = "a"
                                       THEN SchemaEntry(t, size, nullable, NULL)
                                       ELSE SchemaEntry("tinyint", 0, FALSE, 1)]
                       /\ dataframe =
                             [index |-> <<>>, columns |-> <<"a", "b">>,
                              data |-> [c \in {"a", "b"} |->
                                  IF c = "a" THEN a
                                  ELSE KeyColumn(n, IF b = "in range" THEN 7 ELSE 256)]]
    /\ call = [dataframe |-> dataframe]
    /\ db = Unused
    /\ statement = Unused
    /\ args = Unused
    /\ prepped = Unused
    /\ warnings = Unused

\* conversion.py:199-238  the dtype of column c after convert_largest_sql_category
LargestDtype(d, sch, c) ==
    IF d.data[c].dtype # "object" THEN d.data[c].dtype
    ELSE IF sch[c].sql_category = "exact_whole_numeric" THEN "Int64"
    ELSE IF sch[c].sql_category = "approximate_decimal_numeric" THEN "float64"
    ELSE IF sch[c].sql_category = "date_time" /\ sch[c].sql_type # "datetimeoffset"
         THEN "datetime64[ns]"
    ELSE IF sch[c].sql_category = "date_time" /\ sch[c].sql_type = "datetimeoffset"
         THEN "object"
    ELSE IF sch[c].sql_category = "character string" THEN "string"
    ELSE "object"

convert_largest_sql_category(d, sch) ==
    [d EXCEPT !.data = [c \in DOMAIN d.data |->
                           [d.data[c] EXCEPT !.dtype = LargestDtype(d, sch, c)]]]

\* conversion.py:165-174
ConvertLargestSqlCategory ==
    /\ pc = "start"
    /\ dataframe' = convert_largest_sql_category(dataframe, schema)
    /\ pc' = "converted"
    /\ UNCHANGED <<err, call, db, statement, args, schema, prepped, warnings>>

NonNull(cells) == {cells[i].v : i \in {j \in 1..Len(cells) : ~cells[j].null}}

Least(S) == CHOOSE x \in S : \A y \in S : ~LexLess(y, x)
Greatest(S) == CHOOSE x \in S : \A y \in S : ~LexLess(x, y)

\* conversion.py:243-247  what the size check measures: a string's length
\* (x.str.len()), any other value itself
Measured(col) ==
    IF col.dtype = "string"
    THEN {IntV(Len(v)) : v \in NonNull(col.cells)}
    ELSE NonNull(col.cells)

\* conversion.py:246  schema.loc[strings, "max_value"] = schema.loc[strings, "column_size"]
SizeSchema(d, sch) ==
    [c \in DOMAIN sch |->
        IF d.data[c].dtype = "string"
        THEN [sch[c] EXCEPT !.max_value = IntV(sch[c].column_size)]
        ELSE sch[c]]

OutsideInclusive(mn, mx, min_value, max_value) ==
    ~LexLess(min_value, mn) \/ ~LexLess(mx, max_value)

\* conversion.py:269-271  (check["min"] < check["min_value"]) | (check["max"] > check["max_value"])
Outside(mn, mx, min_value, max_value) ==
    LexLess(mn, min_value) \/ LexLess(max_value, mx)

\* conversion.py:253-271  the columns whose min or max is out of the schema's range;
\* the min and max of a column without a value compare False
invalid(d, sch) ==
    SelectSeq(d.columns, LAMBDA c :
        /\ Measured(d.data[c]) # {}
        /\ Outside(Least(Measured(d.data[c])), Greatest(Measured(d.data[c])),
                   sch[c].min_value, sch[c].max_value))

\* conversion.py:177, 241-285
CheckColumnSize ==
    /\ pc = "converted"
    /\ LET sch == SizeSchema(dataframe, schema)
           bad == invalid(dataframe, sch)
       IN  /\ schema' = sch
           /\ IF bad # <<>>
              THEN pc' = "raised" /\ err' = Raised("SQLInsufficientColumnSize", bad)
              ELSE pc' = "sized" /\ err' = err
    /\ UNCHANGED <<call, db, statement, args, dataframe, prepped, warnings>>

\* series.str.encode("ascii", errors="ignore")
EncodeAsciiIgnore(v) == SelectSeq(v, IsAscii)

\* conversion.py:288-305
contains_unicode(col) ==
    \E v \in NonNull(col.cells) : Len(v) # Len(EncodeAsciiIgnore(v))

NonUnicodeTypesAll == {"char", "varchar", "nchar", "nvarchar"}

\* conversion.py:310  the sql_types check_unicode looks at
NonUnicodeTypes == {"char", "varchar"}

\* conversion.py:180, 308-313
CheckUnicode ==
    /\ pc = "sized"
    /\ IF \E c \in Range(dataframe.columns) :
             /\ schema[c].sql_type \in NonUnicodeTypes
             /\ contains_unicode(dataframe.data[c])
       THEN pc' = "raised" /\ err' = Raised("SQLNonUnicodeTypeColumn", <<>>)
       ELSE pc' = "encoded" /\ err' = err
    /\ UNCHANGED <<call, db, statement, args, schema, dataframe, prepped, warnings>>

\* conversion.py:191-193  the primary key's columns, by pk_seq
PrimaryKey(d, sch) ==
    LET keys == {c \in Range(d.columns) : sch[c].pk_seq # NULL}
    IN  CHOOSE s \in [1..Cardinality(keys) -> keys] :
            /\ IsInjective(s)
            /\ \A i, j \in 1..Len(s) : i < j => sch[s[i]].pk_seq <= sch[s[j]].pk_seq

\* conversion.py:182-196  astype(schema["pandas_type"]) and set_index(keys=pk)
FinalCast ==
    /\ pc = "encoded"
    /\ LET pk == PrimaryKey(dataframe, schema)
       IN  dataframe' =
               [index |-> pk,
                columns |-> SelectSeq(dataframe.columns, LAMBDA c : c \notin Range(pk)),
                data |-> [c \in DOMAIN dataframe.data |->
                             [dataframe.data[c] EXCEPT !.dtype = schema[c].pandas_type]]]
    /\ pc' = "done"
    /\ UNCHANGED <<err, call, db, statement, args, schema, prepped, warnings>>

NextCoerce ==
    \/ ConvertLargestSqlCategory
    \/ CheckColumnSize
    \/ CheckUnicode
    \/ FinalCast

SpecCoerce == InitCoerce /\ [][NextCoerce]_vars

(***************************************************************************)
(* Properties of _precheck_dataframe                                       *)
(***************************************************************************)

\* the size check has run
AfterSizeCheck == pc \in {"sized", "encoded", "done", "raised"}

\* the encoding check has run, or the size check has raised before it
AfterChecks == pc \in {"encoded", "done", "raised"}

\* the size check has raised and reports column c
SizeRejects(c) ==
    /\ pc = "raised"
    /\ err.type = "SQLInsufficientColumnSize"
    /\ c \in Range(err.columns)

ValuesOf(c) == NonNull(dataframe.data[c].cells)

InRange(c) ==
    \A v \in ValuesOf(c) :
        /\ ~LexLess(v, rules[schema[c].sql_type].min_value)
        /\ ~LexLess(rules[schema[c].sql_type].max_value, v)

JustOutside(c) ==
    \E v \in ValuesOf(c) :
        \/ v = Dec(rules[schema[c].sql_type].min_value)
        \/ v = Inc(rules[schema[c].sql_type].max_value)

\* C5: for a column of a bounded registry type (tinyint, smallint, int,
\* bigint, bit, time), once the size check has run: when every value of the
\* column lies in [min_value, max_value] the column is not rejected (an error,
\* if any, is a size error that reports other columns only), and when the
\* column holds min_value-1 or max_value+1 coercion has failed with
\* SQLInsufficientColumnSize and the error reports that column.
C5_BoundedTypesAcceptRangeRejectBeyond ==
    (AfterSizeCheck /\ schema["a"].sql_type \in BoundedTypes) =>
        /\ InRange("a") =>
              /\ ~SizeRejects("a")
              /\ pc = "raised" => err.type = "SQLInsufficientColumnSize"
              /\ (pc = "raised") = (\E c \in DOMAIN schema : ~InRange(c))
        /\ JustOutside("a") => SizeRejects("a")

C5_Witness ==
    /\ schema["a"].sql_type = "bigint"
    /\ ValuesOf("a") = {rules["bigint"].max_value, Inc(rules["bigint"].max_value)}
    /\ SizeRejects("a")

C5_WitnessAccepted ==
    /\ pc = "done"
    /\ schema["a"].sql_type = "time"
    /\ ValuesOf("a") = {rules["time"].min_value, rules["time"].max_value}

\* C6: when coercion returns, every null of the returned table is in a column
\* whose schema entry has is_nullable true.
C6_NullsOnlyInNullableColumns ==
    pc = "done" =>
        \A c \in DOMAIN dataframe.data :
            (\E i \in DOMAIN dataframe.data[c].cells : dataframe.data[c].cells[i].null)
                => schema[c].is_nullable

Lengths(c) == {Len(v) : v \in ValuesOf(c)}

\* C7: for a character column of declared size n, once the size check has
\* run: when some value is longer than n the check has failed with
\* SQLInsufficientColumnSize for that column, and when the longest value has
\* length exactly n the check has not rejected the column.
C7_SizeCheckAtDeclaredSize ==
    (AfterSizeCheck /\ schema["a"].sql_type \in StringTypes) =>
        LET n == schema["a"].column_size
        IN  /\ (\E l \in Lengths("a") : l > n) => SizeRejects("a")
            /\ (n \in Lengths("a") /\ \A l \in Lengths("a") : l <= n)
                  => ~SizeRejects("a")

HasNonAscii(c) == \E v \in ValuesOf(c) : \E i \in DOMAIN v : ~IsAscii(v[i])

NonUnicodeRaised == pc = "raised" /\ err.type = "SQLNonUnicodeTypeColumn"

SizeRaised == pc = "raised" /\ err.type = "SQLInsufficientColumnSize"

\* C8 as stated: once the checks have run, a non-ASCII string in a varchar
\* column has made coercion fail with SQLNonUnicodeTypeColumn, in an nvarchar
\* column it has not, and ASCII-only strings never have.  It is stated for the
\* tables without an empty string.
C8_NonAsciiAlwaysFailsNonUnicode ==
    (AfterChecks /\ schema["a"].sql_type \in StringTypes /\ 0 \notin Lengths("a")) =>
        /\ (schema["a"].sql_type = "varchar" /\ HasNonAscii("a")) => NonUnicodeRaised
        /\ schema["a"].sql_type = "nvarchar" => ~NonUnicodeRaised
        /\ ~HasNonAscii("a") => ~NonUnicodeRaised

\* C8, amended: once the checks have run, a non-ASCII string in a varchar
\* column has made coercion fail with SQLNonUnicodeTypeColumn unless the size
\* check, which runs first, has failed with SQLInsufficientColumnSize; in an
\* nvarchar column the same string does not fail the encoding check; and
\* ASCII-only strings never raise SQLNonUnicodeTypeColumn.
C8_NonAsciiFailsNonUnicodeAfterSizeCheck ==
    (AfterChecks /\ schema["a"].sql_type \in StringTypes) =>
        /\ (schema["a"].sql_type = "varchar" /\ HasNonAscii("a"))
              => (NonUnicodeRaised \/ SizeRaised)
        /\ SizeRaised =>
              \E c \in DOMAIN schema :
                  \/ c = "a" /\ \E l \in Lengths("a") : l = 0 \/ l > schema["a"].column_size
                  \/ c # "a" /\ ~InRange(c)
        /\ schema["a"].sql_type = "nvarchar" => ~NonUnicodeRaised
        /\ ~HasNonAscii("a") => ~NonUnicodeRaised

C8_Witness ==
    /\ NonUnicodeRaised
    /\ schema["a"].sql_type = "varchar"
    /\ ValuesOf("a") = {<<97, 233>>, <<97>>}

C8_WitnessUnicode ==
    /\ pc = "done"
    /\ schema["a"].sql_type = "nvarchar"
    /\ ValuesOf("a") = {<<97, 233>>, <<97>>}

(***************************************************************************)
(* prepare_values (core/conversion.py)                                     *)
(*                                                                         *)
(* A pd.Timestamp is the record of its fields below the second: second     *)
(* counts the seconds since the start of the column's first minute, so a   *)
(* carry out of the microseconds shows.  The text a value is rendered to   *)
(* is the record of what the text says: the second and the seven digits    *)
(* after the decimal point that the slice of the string keeps.             *)
(***************************************************************************)

Timestamp(s, us, ns, tz) ==
    [second |-> s, microsecond |-> us, nanosecond |-> ns, tzinfo |-> tz]

\* the timestamp of ns nanoseconds after the second s, in time zone tz
Normalized(s, ns, tz) ==
    Timestamp(s + ns \div 1000000000, (ns % 1000000000) \div 1000, ns % 1000, tz)

\* Python's round(n / d) for integers n >= 0 and d > 0: half to even
round(n, d) ==
    LET q == n \div d
        r == n % d
    IN  IF 2 * r < d THEN q
        ELSE IF 2 * r > d THEN q + 1
        ELSE IF q % 2 = 0 THEN q ELSE q + 1

Abs(x) == IF x < 0 THEN -x ELSE x

\* Series.apply: the column with every value x replaced by f[x], the nulls kept
Apply(col, f) ==
    [col EXCEPT !.cells =
        [i \in DOMAIN col.cells |->
            IF col.cells[i].null THEN Null ELSE Value(f[col.cells[i].v])]]

\* astype("str"), replace({"NaT": None}) and the slice of the string, for a
\* timestamp: the text has the second and seven digits of the fraction
TimestampText(x) ==
    [second |-> x.second, fraction |-> x.microsecond * 10 + x.nanosecond \div 100,
     offset |-> IF x.tzinfo = "None" THEN "" ELSE "+00:00"]

\* conversion.py:398-400  str(x)[7:23] of a Timedelta: "0 days " is cut off
TimedeltaText(x) ==
    [second |-> x[2], fraction |-> x[3] * 10 + x[4] \div 100, offset |-> ""]

PrepareTypes == {"time", "datetime", "datetime2", "datetimeoffset"}

Timedeltas ==
    {<<0, 0, 0, 0>>, <<0, 0, 0, 50>>, <<0, 0, 0, 90>>, <<0, 0, 0, 100>>,
     <<0, 0, 1, 149>>, <<0, 86399, 999999, 900>>, <<0, 86399, 999999, 950>>,
     <<1, 0, 0, 0>>, <<-1, 86399, 999999, 999>>}

Datetimes ==
    {Timestamp(0, us, ns, "None") :
        us \in {0, 1000, 1500, 3000, 5000, 6000, 7000, 8500, 9000, 999000},
        ns \in {0, 500}}

Datetime2s ==
    {Timestamp(0, us, ns, "None") :
        us \in {0, 999999}, ns \in {0, 1, 49, 50, 51, 150, 250, 949, 950, 999}}

Datetimeoffsets ==
    {Timestamp(0, us, ns, tz) :
        us \in {0, 999999}, ns \in {0, 50, 150, 949, 950}, tz \in {"None", "UTC"}}

\* the cells a column of sql_type t is filled from
PrepareCells(t) ==
    {Null} \cup
    {Value(x) : x \in CASE t = "time" -> Timedeltas
                        [] t = "datetime" -> Datetimes
                        [] t = "datetime2" -> Datetime2s
                        [] t = "datetimeoffset" -> Datetimeoffsets}

\* the calls of prepare_values one after the other, each on the dataframe the
\* call before it returned
MaxCalls == 2

\* conversion.py:564-566  a dataframe of one column a of sql_type t, without a
\* named index
PrepareFrame(t, cells) ==
    [index |-> <<>>, columns |-> <<"a">>,
     data |-> [c \in {"a"} |->
                  [dtype |-> IF t = "time" THEN "timedelta64[ns]"
                             ELSE IF t = "datetimeoffset" THEN "object"
                             ELSE "datetime64[ns]",
                   cells |-> cells]]]

\* conversion.py:564-593  the call of prepare_values: prepped is a copy of
\* the dataframe, and call keeps the dataframe the caller passed
InitPrepare ==
    /\ pc = "prepare"
    /\ err = NoError
    /\ \E n \in 1..MaxRows, t \in PrepareTypes :
          \E cells \in [1..n -> PrepareCells(t)] :
              /\ schema = [c \in {"a"} |-> [sql_type |-> t]]
              /\ dataframe = PrepareFrame(t, cells)
    /\ prepped = dataframe
    /\ call = [schema |-> schema, dataframe |-> dataframe, nth |-> 1]
    /\ warnings = <<>>
    /\ db = Unused
    /\ statement = Unused
    /\ args = Unused

\* schema[schema["sql_type"] == t].index, as a list in the dataframe's order
ColumnsOfType(d, sch, types) ==
    SelectSeq(d.columns, LAMBDA c : sch[c].sql_type \in types)

Warning(sql_type, columns) == [sql_type |-> sql_type, columns |-> columns]

\* frame[col] = other[col] for every col of the list cols
Assign(d, cols, other) ==
    [d EXCEPT !.data = [c \in DOMAIN d.data |->
                           IF c \in Range(cols) THEN other.data[c] ELSE d.data[c]]]

\* the frame with the values of its columns replaced through f
Applied(d, f) ==
    [d EXCEPT !.data = [c \in DOMAIN d.data |-> Apply(d.data[c], f)]]

\* the values of the frame's columns
AllValues(d) == UNION {NonNull(d.data[c].cells) : c \in DOMAIN d.data}

\* conversion.py:383-390  pd.Timedelta(days=, hours=, minutes=, seconds=,
\* microseconds=, nanoseconds=round(ns / 100) * 100): the arguments add up
RoundedTimedelta(x) ==
    LET ns == round(x[4], 100) * 100
    IN  IF ns < 1000 THEN [x EXCEPT ![4] = ns]
        ELSE IncR(SubSeq(x, 1, 3), SubSeq(TimedeltaRadix, 1, 3)) \o <<ns - 1000>>

OutOfRangeTimeExclusive(v) ==
    LexLess(<<1, 0, 0, 0>>, v) \/ LexLess(v, <<0, 0, 0, 0>>)

\* conversion.py:362-365  (x >= pd.Timedelta(days=1)) | (x < pd.Timedelta(days=0))
OutOfRangeTime(v) ==
    ~LexLess(v, <<1, 0, 0, 0>>) \/ LexLess(v, <<0, 0, 0, 0>>)

\* conversion.py:358-402
PrepareTime ==
    /\ pc = "prepare"
    /\ LET dtype == ColumnsOfType(prepped, schema, {"time"})
           invalidTime == SelectSeq(dtype, LAMBDA c :
                          \E v \in NonNull(prepped.data[c].cells) : OutOfRangeTime(v))
           truncation == SelectSeq(dtype, LAMBDA c :
                          \E v \in NonNull(prepped.data[c].cells) : v[4] % 100 > 0)
           rounded == Applied(dataframe,
                              [x \in AllValues(dataframe) |-> RoundedTimedelta(x)])
           assigned == Assign(prepped, truncation, rounded)
       IN  IF invalidTime # <<>>
           THEN /\ pc' = "raised"
                /\ err' = Raised("ValueError", invalidTime)
                /\ UNCHANGED <<dataframe, prepped, warnings>>
           ELSE /\ pc' = "time"
                /\ err' = err
                /\ warnings' = IF truncation # <<>>
                               THEN Append(warnings, Warning("time", truncation))
                               ELSE warnings
                /\ dataframe' = Assign(dataframe, truncation, rounded)
                /\ prepped' =
                      Assign(assigned, dtype,
                             Applied(assigned,
                                     [x \in AllValues(assigned) |-> TimedeltaText(x)]))
    /\ UNCHANGED <<call, db, statement, args, schema>>

increments == <<10, 7, 3, 0>>

\* np.abs(thousandths - increments).argmin(axis=0): the first index of the
\* least distance; t is the microsecond field modulo 10000, so that the
\* distances are those of microsecond / 1000 % 10, times 1000
argmin(t) ==
    CHOOSE i \in DOMAIN increments :
        /\ \A j \in DOMAIN increments :
              Abs(t - increments[i] * 1000) <= Abs(t - increments[j] * 1000)
        /\ \A j \in 1..(i - 1) :
              Abs(t - increments[i] * 1000) < Abs(t - increments[j] * 1000)

\* conversion.py:419-429  dt.floor("s") + the milliseconds
RoundedDatetime(x) ==
    LET thousandths == increments[argmin(x.microsecond % 10000)]
        milliseconds == (x.microsecond \div 10000) * 10 + thousandths
    IN  Normalized(x.second, milliseconds * 1000000, x.tzinfo)

\* conversion.py:405-440
PrepareDatetime ==
    /\ pc = "time"
    /\ LET dtype == ColumnsOfType(prepped, schema, {"datetime"})
           adjust == SelectSeq(dtype, LAMBDA c :
                          \E v \in NonNull(prepped.data[c].cells) :
                              v.microsecond % 3000 > 0)
           rounded == Applied(dataframe,
                              [x \in AllValues(dataframe) |-> RoundedDatetime(x)])
           assigned == Assign(prepped, adjust, rounded)
       IN  /\ warnings' = IF adjust # <<>>
                          THEN Append(warnings, Warning("datetime", adjust))
                          ELSE warnings
           /\ dataframe' = Assign(dataframe, adjust, rounded)
           /\ prepped' =
                 Assign(assigned, dtype,
                        Applied(assigned,
                                [x \in AllValues(assigned) |-> TimestampText(x)]))
    /\ pc' = "datetime"
    /\ UNCHANGED <<err, call, db, statement, args, schema>>

\* the nanosecond argument the source passes to pd.Timestamp
RoundedNanosecond(x) == round(x.nanosecond, 100) * 100

\* pd.Timestamp(year, ..., second, microsecond, nanosecond) where the
\* constructor takes the nanosecond argument
RoundedTimestamp(x) ==
    Normalized(x.second, x.microsecond * 1000 + RoundedNanosecond(x), x.tzinfo)

\* pd.Timestamp is given a nanosecond argument outside 0..999 for some value
\* of the columns: pandas raises "nanosecond must be in 0..999", or, in the
\* versions without that check, adds the nanoseconds to the value
NanosecondOutOfBounds(d, cols) ==
    \E c \in Range(cols) :
        \E v \in NonNull(d.data[c].cells) : RoundedNanosecond(v) > 999

\* conversion.py:443-480
PrepareDatetime2 ==
    /\ pc = "datetime"
    /\ \E checked \in BOOLEAN :
        LET dtype == ColumnsOfType(prepped, schema, {"datetime2"})
            truncation == SelectSeq(dtype, LAMBDA c :
                           \E v \in NonNull(prepped.data[c].cells) :
                               v.nanosecond % 100 > 0)
            rounded == Applied(dataframe,
                               [x \in AllValues(dataframe) |-> RoundedTimestamp(x)])
            assigned == Assign(prepped, truncation, rounded)
        IN  /\ warnings' = IF truncation # <<>>
                           THEN Append(warnings, Warning("datetime2", truncation))
                           ELSE warnings
            /\ IF checked /\ NanosecondOutOfBounds(dataframe, truncation)
               THEN /\ pc' = "raised"
                    /\ err' = Raised("ValueError", <<>>)
                    /\ UNCHANGED <<dataframe, prepped>>
               ELSE /\ pc' = "datetime2"
                    /\ err' = err
                    /\ dataframe' = Assign(dataframe, truncation, rounded)
                    /\ prepped' =
                          Assign(assigned, dtype,
                                 Applied(assigned,
                                         [x \in AllValues(assigned) |-> TimestampText(x)]))
    /\ UNCHANGED <<call, db, statement, args, schema>>

\* conversion.py:491-493  x.tz_localize("UTC") if x.tzinfo is None else x
Localized(x) == IF x.tzinfo = "None" THEN [x EXCEPT !.tzinfo = "UTC"] ELSE x

\* conversion.py:483-541
PrepareDatetimeoffset ==
    /\ pc = "datetime2"
    /\ \E checked \in BOOLEAN :
        LET dtype == ColumnsOfType(prepped, schema, {"datetimeoffset"})
            localized ==
                Assign(dataframe, dtype,
                       Applied(dataframe,
                               [x \in AllValues(dataframe) |-> Localized(x)]))
            truncation == SelectSeq(dtype, LAMBDA c :
                           \E v \in NonNull(localized.data[c].cells) :
                               v.nanosecond % 100 > 0)
            rounded == Applied(localized,
                               [x \in AllValues(localized) |-> RoundedTimestamp(x)])
            assigned == Assign(Assign(prepped, dtype, localized), truncation, rounded)
        IN  /\ warnings' = IF truncation # <<>>
                           THEN Append(warnings, Warning("datetimeoffset", truncation))
                           ELSE warnings
            /\ IF checked /\ NanosecondOutOfBounds(localized, truncation)
               THEN /\ pc' = "raised"
                    /\ err' = Raised("ValueError", <<>>)
                    /\ dataframe' = localized
                    /\ prepped' = Assign(prepped, dtype, localized)
               ELSE /\ pc' = "datetimeoffset"
                    /\ err' = err
                    /\ dataframe' = Assign(localized, truncation, rounded)
                    /\ prepped' =
                          Assign(assigned, dtype,
                                 Applied(assigned,
                                         [x \in AllValues(assigned) |-> TimestampText(x)]))
    /\ UNCHANGED <<call, db, statement, args, schema>>

\* conversion.py:600-622  prepare_numeric finds no numeric or decimal column
\* among the modelled sql_types; the nulls of prepped become None and
\* prepare_values returns the dataframe and the values
PrepareReturn ==
    /\ pc = "datetimeoffset"
    /\ pc' = "prepared"
    /\ UNCHANGED <<err, call, db, statement, args, schema, dataframe, prepped,
                   warnings>>

\* conversion.py:564-581  prepare_values called on the dataframe it returned:
\* prepped is a copy of that dataframe
PrepareAgain ==
    /\ pc = "prepared"
    /\ call.nth < MaxCalls
    /\ pc' = "prepare"
    /\ prepped' = dataframe
    /\ call' = [schema |-> schema, dataframe |-> dataframe, nth |-> call.nth + 1]
    /\ warnings' = <<>>
    /\ UNCHANGED <<err, db, statement, args, schema, dataframe>>

NextPrepare ==
    \/ PrepareTime
    \/ PrepareDatetime
    \/ PrepareDatetime2
    \/ PrepareDatetimeoffset
    \/ PrepareReturn
    \/ PrepareAgain

SpecPrepare == InitPrepare /\ [][NextPrepare]_vars

(***************************************************************************)
(* Properties of prepare_values                                            *)
(***************************************************************************)

\* the cells of column a as the caller passed them, and as they are now
Passed == call.dataframe.data["a"].cells
Stored == dataframe.data["a"].cells

AfterPrepareDatetime == pc \in {"datetime", "datetime2", "datetimeoffset", "prepared"}

\* y is x with its milliseconds moved to a nearest of the increments .000,
\* .003, .007 and .010 of its hundredth of a second
NearestIncrement(x, y) ==
    \E k \in {0, 3, 7, 10} :
        /\ y = Normalized(x.second,
                          ((x.microsecond \div 10000) * 10 + k) * 1000000, x.tzinfo)
        /\ \A j \in {0, 3, 7, 10} :
              Abs((x.microsecond % 10000) - k * 1000)
                  <= Abs((x.microsecond % 10000) - j * 1000)

\* C9: after prepare_datetime, every non-null value of a datetime column,
\* as stored back in the caller's table, has no part below the millisecond,
\* has a thousandths digit of 0, 3 or 7, and is the passed value moved to
\* the nearest increment, whatever the other values of the column are.
C9_DatetimeStoredInIncrements ==
    (AfterPrepareDatetime /\ schema["a"].sql_type = "datetime") =>
        \A i \in DOMAIN Stored :
            ~Passed[i].null =>
                /\ ~Stored[i].null
                /\ Stored[i].v.nanosecond = 0
                /\ Stored[i].v.microsecond % 1000 = 0
                /\ (Stored[i].v.microsecond \div 1000) % 10 \in {0, 3, 7}
                /\ NearestIncrement(Passed[i].v, Stored[i].v)

\* y is x moved to a nearest multiple of 100 ns, the carry included
NearestHundred(x, y) ==
    \E k \in 0..10 :
        /\ Abs(x.nanosecond - k * 100) <= 50
        /\ y.second = Normalized(x.second, x.microsecond * 1000 + k * 100, "").second
        /\ y.microsecond =
              Normalized(x.second, x.microsecond * 1000 + k * 100, "").microsecond
        /\ y.nanosecond =
              Normalized(x.second, x.microsecond * 1000 + k * 100, "").nanosecond

\* C10: the precision adjustment of a datetime2 or datetimeoffset column
\* never raises, and once it has run every non-null value is the passed value
\* moved to the nearest multiple of 100 ns, with the carry into the
\* microseconds.
C10_HighPrecisionRoundingNeverRaises ==
    schema["a"].sql_type \in {"datetime2", "datetimeoffset"} =>
        /\ pc # "raised"
        /\ pc \in {"datetimeoffset", "prepared"} =>
              \A i \in DOMAIN Stored :
                  ~Passed[i].null =>
                      /\ ~Stored[i].null
                      /\ NearestHundred(Passed[i].v, Stored[i].v)

\* prepare_time has run and has not raised
AfterPrepareTime ==
    pc \in {"time", "datetime", "datetime2", "datetimeoffset", "prepared"}

\* this call has logged a warning for the columns of sql_type t
Warned(t) == \E i \in DOMAIN warnings : warnings[i].sql_type = t

\* every value the caller passed is a multiple of 100 ns
AlignedTimes == \A v \in NonNull(Passed) : v[4] % 100 = 0

\* y is the time x moved to a nearest multiple of 100 ns, the carry included
NearestHundredTime(x, y) ==
    \E k \in 0..10 :
        /\ Abs(x[4] - k * 100) <= 50
        /\ y = IF k < 10 THEN [x EXCEPT ![4] = k * 100]
               ELSE IncR(SubSeq(x, 1, 3), SubSeq(TimedeltaRadix, 1, 3)) \o <<0>>

SomeTimeOutside ==
    \E v \in NonNull(Passed) : v[1] < 0 \/ v[1] >= 1

\* C12: for a time column, prepare_time raises its out-of-range ValueError,
\* naming the column, exactly when a value is negative or at least one day;
\* when it raises, nothing has been rounded or rendered, no warning has been
\* logged and the caller's table is as it was passed.
C12_TimeOutOfRangeRaisesFirst ==
    (schema["a"].sql_type = "time" /\ pc # "prepare") =>
        /\ (pc = "raised") = SomeTimeOutside
        /\ pc = "raised" =>
              /\ err = Raised("ValueError", <<"a">>)
              /\ dataframe = call.dataframe
              /\ prepped = call.dataframe
              /\ warnings = <<>>

C12_Witness ==
    /\ pc = "raised"
    /\ schema["a"].sql_type = "time"
    /\ call.nth = 1
    /\ NonNull(Passed) = {<<1, 0, 0, 0>>, <<0, 0, 0, 50>>}

\* C13: for a datetime column, prepare_datetime logs its warning exactly when
\* the rounding has changed a value of the column: no warning for a column
\* whose values are all on a .000, .003 or .007 increment, and a warning for
\* every column in which a value is altered.
C13_DatetimeWarnsIffChanged ==
    (AfterPrepareDatetime /\ schema["a"].sql_type = "datetime") =>
        Warned("datetime") = (Stored # Passed)

(***************************************************************************)
(* get_schema and read_values (core/conversion.py)                         *)
(*                                                                         *)
(* A table of two columns a, b in this ordinal order is introspected, its  *)
(* schema joined with the registry, and a SELECT on it read back.  db is   *)
(* the table's definition, schema the frame get_schema builds (keyed by    *)
(* column name, in the order of db.columns), statement the select list,    *)
(* dataframe the frame read_values returns.                                *)
(***************************************************************************)

\* the type names a driver reports that have no record in rules
OtherTypeNames ==
    {"tinyint identity", "smallint identity", "int identity", "bigint identity",
     "datetime", "datetimeoffset", "char", "nchar"}

TypeNames == Range(sql_types) \cup OtherTypeNames

\* the primary keys of a two column table: key_seq of a and of b
KeySeqs == {<<NULL, NULL>>, <<1, NULL>>, <<NULL, 1>>, <<1, 2>>, <<2, 1>>}

\* key_seq of the columns a and b for a primary key k of KeySeqs
KeySeq(k) == [c \in {"a", "b"} |-> IF c = "a" THEN k[1] ELSE k[2]]

\* the tables of the same name in another schema of the database: none, or
\* one with the same columns and the primary key (a) or (b, a)
NoOtherTable == [exists |-> FALSE, key_seq |-> KeySeq(<<NULL, NULL>>)]

OtherTables(schema_name) ==
    IF schema_name = "None" THEN {NoOtherTable}
    ELSE {NoOtherTable} \cup
         {[exists |-> TRUE, key_seq |-> KeySeq(k)] : k \in {<<1, NULL>>, <<2, 1>>}}

\* conversion.py:46-58  the table get_schema is asked for, named with or
\* without its schema (schema_name is None for an unqualified name)
Tables ==
    UNION {
        {[columns |-> <<"a", "b">>,
          schema_name |-> sn,
          other |-> o,
          type_name |-> [c \in {"a", "b"} |-> IF c = "a" THEN ta ELSE tb],
          column_size |-> [c \in {"a", "b"} |-> IF c = "a" THEN sa ELSE 0],
          key_seq |-> KeySeq(k)] :
            ta \in TypeNames, tb \in TypeNames, sa \in {0, 1}, k \in KeySeqs,
            o \in OtherTables(sn)} : sn \in {"None", "sales"} }

InitRead ==
    /\ pc = "get_schema"
    /\ err = NoError
    /\ db \in Tables
    /\ schema = Unused
    /\ statement = Unused
    /\ dataframe = Unused
    /\ call = Unused
    /\ args = Unused
    /\ prepped = Unused
    /\ warnings = Unused

\* conversion.py:113  cursor.primaryKeys(table=table_name, catalog=catalog):
\* the call names no schema, so the driver answers for the table of that name
\* the session's default schema makes visible, which is the table asked for
\* or a table of the same name in another schema; the possible key_seq
primaryKeys(d) ==
    {d.key_seq} \cup (IF d.other.exists THEN {d.other.key_seq} ELSE {})

\* conversion.py:59-123  cursor.columns(table, catalog, schema) joined on
\* column_name with cursor.primaryKeys: a table with columns always has a
\* schema, and no dataframe is given
FormatSchema ==
    /\ pc = "get_schema"
    /\ \E pk \in primaryKeys(db) :
          schema' = [c \in Range(db.columns) |->
                        [sql_type |-> db.type_name[c],
                         column_size |-> db.column_size[c],
                         is_nullable |-> db.key_seq[c] = NULL,
                         pk_seq |-> pk[c]]]
    /\ pc' = "formatted"
    /\ UNCHANGED <<err, call, db, statement, args, dataframe, prepped, warnings>>

\* conversion.py:127-129  the fields of a left merge's row that has no match
NotAvailable ==
    [sql_category |-> "NA", min_value |-> <<>>, max_value |-> <<>>,
     pandas_type |-> "NA"]

\* conversion.py:126  identity = schema["sql_type"] == "int identity"
identity(sql_type) == sql_type = "int identity"

\* conversion.py:127  schema.loc[identity, "sql_type"] = "int"
BaseType(sql_type) == IF identity(sql_type) THEN "int" ELSE sql_type

\* conversion.py:128-130  merge(conversion_rules.rules, how="left")
Lookup(sql_type) ==
    IF sql_type \in DOMAIN rules THEN rules[sql_type] ELSE NotAvailable

\* conversion.py:125-131  add conversion rules; sql_type is restored after the
\* merge
AddConversionRules ==
    /\ pc = "formatted"
    /\ schema' = [c \in DOMAIN schema |->
                     LET rule == Lookup(BaseType(schema[c].sql_type))
                     IN  [sql_type |-> schema[c].sql_type,
                          column_size |-> schema[c].column_size,
                          is_nullable |-> schema[c].is_nullable,
                          pk_seq |-> schema[c].pk_seq,
                          sql_category |-> rule.sql_category,
                          min_value |-> rule.min_value,
                          max_value |-> rule.max_value,
                          pandas_type |-> rule.pandas_type]]
    /\ pc' = "joined"
    /\ UNCHANGED <<err, call, db, statement, args, dataframe, prepped, warnings>>

\* conversion.py:136  schema[conversion_rules.rules.columns].isna().any(axis="columns")
isna(row) ==
    \/ row.sql_category = "NA"
    \/ row.min_value = <<>>
    \/ row.max_value = <<>>
    \/ row.pandas_type = "NA"

\* conversion.py:133-147  check for undefined conversion rule, else return
CheckUndefinedRule ==
    /\ pc = "joined"
    /\ LET missing == SelectSeq(db.columns, LAMBDA c : isna(schema[c]))
       IN  IF missing # <<>>
           THEN pc' = "raised" /\ err' = Raised("UndefinedConversionRule", missing)
           ELSE pc' = "schema" /\ err' = err
    /\ UNCHANGED <<call, db, statement, args, schema, dataframe, prepped, warnings>>

\* the select lists of a statement on the table: its columns in any order,
\* and an expression x that is not a column
SelectLists ==
    LET names == {"a", "b", "x"}
    IN  {s \in UNION {[1..n -> names] : n \in 1..2} : IsInjective(s)}

\* conversion.py:840-851  cursor.execute(statement).fetchall() and the names in
\* cursor.description
ReadExecute ==
    /\ pc = "schema"
    /\ statement' \in SelectLists
    /\ pc' = "fetched"
    /\ UNCHANGED <<err, call, db, args, schema, dataframe, prepped, warnings>>

\* conversion.py:867  list(schema[schema["pk_seq"].notna()].index)
keys(sch, order) == SelectSeq(order, LAMBDA c : sch[c].pk_seq # NULL)

\* conversion.py:853-874  form the output with the schema's pandas types and
\* set the primary key columns as index
ReadResult ==
    /\ pc = "fetched"
    /\ LET columns == statement
           unknown == SelectSeq(columns, LAMBDA c : c \notin DOMAIN schema)
           k == keys(schema, db.columns)
       IN  IF unknown # <<>>
           THEN /\ pc' = "raised"
                /\ err' = Raised("AttributeError", unknown)
                /\ dataframe' = dataframe
           ELSE IF ~ (Range(k) \subseteq Range(columns))
           THEN /\ pc' = "raised"
                /\ err' = Raised("KeyError", k)
                /\ dataframe' = dataframe
           ELSE /\ pc' = "read"
                /\ err' = err
                /\ dataframe' =
                       [index |-> k,
                        columns |-> SelectSeq(columns, LAMBDA c : c \notin Range(k)),
                        data |-> [c \in Range(columns) |->
                                     [dtype |-> schema[c].pandas_type,
                                      cells |-> <<>>]]]
    /\ UNCHANGED <<call, db, statement, args, schema, prepped, warnings>>

NextRead ==
    \/ FormatSchema
    \/ AddConversionRules
    \/ CheckUndefinedRule
    \/ ReadExecute
    \/ ReadResult

SpecRead == InitRead /\ [][NextRead]_vars

\* the columns of the introspected table, once get_schema has finished
AfterGetSchema == pc \in {"schema", "fetched", "read"} \/
                  (pc = "raised" /\ err.type # "UndefinedConversionRule")

GetSchemaRaised == pc = "raised" /\ err.type = "UndefinedConversionRule"

GetSchemaEnded == AfterGetSchema \/ GetSchemaRaised

IntegerTypes == {"tinyint", "smallint", "int", "bigint"}

\* the type name reported for an identity column of an integer type
IdentityOf(base) ==
    CASE base = "tinyint" -> "tinyint identity"
      [] base = "smallint" -> "smallint identity"
      [] base = "int" -> "int identity"
      [] base = "bigint" -> "bigint identity"

\* C14: every identity column of an integer type (tinyint, smallint, int,
\* bigint) gets through get_schema: its row holds the registry's fields of the
\* base type, its sql_type again carries the identity designation, and
\* UndefinedConversionRule is not raised for it.
C14_IdentityResolvesBaseType ==
    GetSchemaEnded =>
        \A c \in DOMAIN schema : \A base \in IntegerTypes :
            db.type_name[c] = IdentityOf(base) =>
                /\ ~ (GetSchemaRaised /\ c \in Range(err.columns))
                /\ schema[c].sql_type = IdentityOf(base)
                /\ schema[c].sql_category = rules[base].sql_category
                /\ schema[c].min_value = rules[base].min_value
                /\ schema[c].max_value = rules[base].max_value
                /\ schema[c].pandas_type = rules[base].pandas_type

\* the types the registry is said to cover: boolean, the integers of 8 to 64
\* bits, double precision, time, date, the timestamps without and with a time
\* zone, and the character types of fixed and variable width
CoveredTypes ==
    {"bit", "tinyint", "smallint", "int", "bigint", "float", "time", "date",
     "datetime2", "datetimeoffset", "char", "varchar", "nchar", "nvarchar"}

\* column c's lookup in the registry found no record, and get_schema raised
\* UndefinedConversionRule for it
NotFound(c) ==
    /\ isna(schema[c])
    /\ GetSchemaRaised
    /\ c \in Range(err.columns)

\* C15: the registry has exactly one record for each sql_type, it has a
\* record for every covered type, so that a column of a covered type gets its
\* rule, and the lookup of a name outside the registry finds nothing:
\* get_schema raises UndefinedConversionRule for that column.
C15_RegistryCoversTypes ==
    /\ IsInjective(sql_types)
    /\ GetSchemaEnded =>
          \A c \in DOMAIN schema :
              LET t == BaseType(db.type_name[c])
              IN  /\ t \in CoveredTypes =>
                        /\ ~ NotFound(c)
                        /\ schema[c].pandas_type = rules[t].pandas_type
                  /\ t \notin Range(sql_types) => NotFound(c)

\* the staging table of this call has been created
StagingCreated == \E i \in DOMAIN db.log : db.log[i] = "execute CREATE TABLE"

\* the number of entries e in a log
Count(log, e) == Cardinality({i \in DOMAIN log : log[i] = e})

\* C16: when a merge call whose staging table was created has ended, by
\* returning or by raising, the staging table is dropped; when it returned,
\* MERGE was executed exactly once, then DROP TABLE, then the commit.
C16_StagingDroppedWhenCallEnds ==
    (pc \in {"done", "raised"} /\ StagingCreated) =>
        /\ ~ db.staging.exists
        /\ pc = "done" =>
              /\ Count(db.log, "execute MERGE") = 1
              /\ Len(db.log) >= 3
              /\ SubSeq(db.log, Len(db.log) - 2, Len(db.log)) =
                     <<"execute MERGE", "execute DROP TABLE", "commit">>

\* C17: the index read_values installs on its result is the primary key's
\* columns in the order of pk_seq, the index the coercion installs on a
\* dataframe of the same columns, whatever the order of the columns in the
\* table's definition.
C17_ReadIndexByPkSeq ==
    pc = "read" =>
        /\ dataframe.index = PrimaryKey([columns |-> statement], schema)
        /\ \A i, j \in DOMAIN dataframe.index :
              i < j => schema[dataframe.index[i]].pk_seq
                          < schema[dataframe.index[j]].pk_seq

(***************************************************************************)
(* insert_values (core/conversion.py)                                      *)
(*                                                                         *)
(* db is the target table, its rows in the order of their insertion, and   *)
(* the log of what the cursor was asked to do; the rows written are the    *)
(* values prepare_values returned.                                         *)
(***************************************************************************)

InitInsert ==
    /\ pc = "insert"
    /\ err = NoError
    /\ \E n \in 1..MaxRows, t \in PrepareTypes :
          \E cells \in [1..n -> PrepareCells(t)] :
              /\ schema = [c \in {"a"} |-> [sql_type |-> t]]
              /\ dataframe = PrepareFrame(t, cells)
    /\ \E stamps \in BOOLEAN :
          call = [schema |-> schema, dataframe |-> dataframe, nth |-> MaxCalls,
                  include_metadata_timestamps |-> stamps]
    /\ db = [target |-> <<>>, log |-> <<>>]
    /\ prepped = Unused
    /\ warnings = <<>>
    /\ statement = Unused
    /\ args = Unused

\* conversion.py:783-795, 581  the names of the columns are escaped and
\* prepare_values is called: prepped is a copy of the dataframe
InsertPrepareValues ==
    /\ pc = "insert"
    /\ args' = dataframe.index \o dataframe.columns
    /\ db' = [db EXCEPT !.log = @ \o <<"escape", "escape">>]
    /\ prepped' = dataframe
    /\ pc' = "prepare"
    /\ UNCHANGED <<err, call, statement, schema, dataframe, warnings>>

\* conversion.py:795  dataframe, values = prepare_values(schema, dataframe):
\* the values exist once prepare_values has returned
ValuesReadyAtCall(p) == p \in {"prepare", "prepared"}

ValuesReady(p) == p = "prepared"

\* conversion.py:797-818  prepare_cursor sets the input sizes, the INSERT is
\* built and executemany writes the values
InsertExecutemany ==
    /\ ValuesReady(pc)
    /\ LET columns == args
           stamps == call.include_metadata_timestamps
           rows == [i \in DOMAIN prepped.data[columns[1]].cells |->
                       [c \in Range(columns) |-> prepped.data[c].cells[i]]]
       IN  /\ statement' =
                  [insert |-> IF stamps THEN <<"_time_insert">> \o columns
                              ELSE columns,
                   params |-> IF stamps
                              THEN <<"GETDATE()">> \o [i \in DOMAIN columns |-> "?"]
                              ELSE [i \in DOMAIN columns |-> "?"]]
           /\ db' = [db EXCEPT !.target = @ \o rows,
                                !.log = @ \o <<"setinputsizes", "executemany INSERT">>]
    /\ pc' = "executed"
    /\ UNCHANGED <<err, call, args, schema, dataframe, prepped, warnings>>

\* conversion.py:819-822  commit and return the dataframe
InsertCommit ==
    /\ pc = "executed"
    /\ db' = [db EXCEPT !.log = @ \o <<"commit">>]
    /\ pc' = "inserted"
    /\ UNCHANGED <<err, call, statement, args, schema, dataframe, prepped, warnings>>

NextInsert ==
    \/ InsertPrepareValues
    \/ PrepareTime
    \/ PrepareDatetime
    \/ PrepareDatetime2
    \/ PrepareDatetimeoffset
    \/ PrepareReturn
    \/ InsertExecutemany
    \/ InsertCommit

SpecInsert == InitInsert /\ [][NextInsert]_vars

\* the cursor has been asked to write rows, or to commit, since the call
Written ==
    \E i \in DOMAIN db.log : db.log[i] \in {"executemany INSERT", "commit"}

\* C18: insert_values issues executemany and the commit only once
\* prepare_values has returned the prepared values of every column; when
\* the preparation fails, as it does for a time out of range, no INSERT is
\* executed, nothing is committed and the target table is unchanged.
C18_InsertOnlyAfterPreparation ==
    /\ Written =>
          /\ pc \in {"executed", "inserted"}
          /\ err = NoError
          /\ Len(db.target) = Len(Passed)
    /\ (pc = "raised" \/ (schema["a"].sql_type = "time" /\ SomeTimeOutside)) =>
          /\ ~ Written
          /\ db.target = <<>>

C18_Witness ==
    /\ pc = "inserted"
    /\ db.log = <<"escape", "escape", "setinputsizes", "executemany INSERT", "commit">>
    /\ db.target # <<>>

C18_WitnessFailed ==
    /\ pc = "raised"
    /\ schema["a"].sql_type = "time"
    /\ db.log = <<"escape", "escape">>

(***************************************************************************)
(* Properties of convert_largest_sql_category and of the size check        *)
(***************************************************************************)

\* the widest representation of the category of an sql_type
Widest(t) ==
    CASE t \in {"tinyint", "smallint", "int", "bigint"} -> "Int64"
      [] t = "float" -> "float64"
      [] t \in {"date", "datetime2"} -> "datetime64[ns]"
      [] t \in {"varchar", "nvarchar"} -> "string"

WidenedTypes ==
    {"tinyint", "smallint", "int", "bigint", "float", "date", "datetime2",
     "varchar", "nvarchar"}

\* C19: when convert_largest_sql_category has run, before the size check,
\* every column that arrived with dtype object has the widest dtype of the
\* category of its sql_type: Int64 for the integers, float64 for float,
\* datetime64[ns] for date and datetime2, string for varchar and nvarchar.
C19_ObjectColumnsWidened ==
    pc = "converted" =>
        \A c \in DOMAIN dataframe.data :
            (/\ call.dataframe.data[c].dtype = "object"
             /\ schema[c].sql_type \in WidenedTypes) =>
                dataframe.data[c].dtype = Widest(schema[c].sql_type)

\* C20: once the size check has run, a character column is rejected only
\* when some value is longer than its declared size, and a table whose
\* character values all have a length from 0 to the declared size, the
\* empty string included, and whose other columns are in range, passes.
C20_SizeCheckRejectsOnlyOverLength ==
    (AfterSizeCheck /\ schema["a"].sql_type \in StringTypes) =>
        LET n == schema["a"].column_size
        IN  /\ SizeRejects("a") => \E l \in Lengths("a") : l > n
            /\ ((\A l \in Lengths("a") : l <= n)
                   /\ \A c \in DOMAIN schema \ {"a"} : InRange(c))
                  => ~SizeRaised

(***************************************************************************)
(* Properties of the merge statement's variables                           *)
(***************************************************************************)

\* the variables <<family, alias>> of a family for a list of columns
Variables(family, columns) ==
    [k \in 1..Len(columns) |-> <<family, str(k - 1)>>]

\* the family of a piece "@Family_" of the parameters and of the values
ListFamily(p) ==
    CASE p = "@Match_" -> "Match"
      [] p = "@Update_" -> "Update"
      [] p = "@Insert_" -> "Insert"
      [] p = "@Subset_" -> "Subset"
      [] OTHER -> "none"

\* the family of a piece "=@Family_" of the values
PassFamily(p) ==
    CASE p = "=@Match_" -> "Match"
      [] p = "=@Update_" -> "Update"
      [] p = "=@Insert_" -> "Insert"
      [] p = "=@Subset_" -> "Subset"
      [] OTHER -> "none"

\* the variables sp_executesql's parameter definition lists, in order
Listed(stmt) ==
    LET text == stmt.parameters
        idx == SelectSeq([i \in 1..Len(text) |-> i],
                         LAMBDA i : i < Len(text)
                                    /\ ListFamily(text[i]) # "none")
    IN  [j \in 1..Len(idx) |-> <<ListFamily(text[idx[j]]), text[idx[j] + 1]>>]

\* the assignments @name=@value of sp_executesql's call, in order, as pairs
\* <<variable assigned, variable passed>>
Assigned(stmt) ==
    LET text == stmt.values
        idx == SelectSeq([i \in 1..Len(text) |-> i],
                         LAMBDA i : i + 3 <= Len(text)
                                    /\ ListFamily(text[i]) # "none")
    IN  [j \in 1..Len(idx) |->
            <<<<ListFamily(text[idx[j]]), text[idx[j] + 1]>>,
              <<PassFamily(text[idx[j] + 2]), text[idx[j] + 3]>>>>]

\* C21: in the statement merge hands to cursor.execute, the ? markers are as
\* many as the arguments, 2 + match + update + insert + delete-guard columns;
\* the variables are declared in the order match, update, insert, subset and
\* the i-th marker's variable receives the i-th argument: the table name, the
\* staging name, then the columns in that order; the declared names are
\* pairwise distinct; and every declared variable is listed in the parameter
\* definition of sp_executesql and passed to it under its own name.
C21_PlaceholdersBindArgsInOrder ==
    (pc \in {"merged", "raised"} /\ statement # NoStatement) =>
        LET m == MatchOf(call)
            u == update_columns(call.frame, m)
            ins == insert_columns(call.frame)
            g == GuardsOf(call)
            D == Declared(statement)
        IN  /\ 2 + Count(statement.declare, " SYSNAME = ?;") = Len(args)
            /\ Len(args) = 2 + Len(m) + Len(u) + Len(ins) + Len(g)
            /\ args[1] = call.table_name
            /\ args[2] = db.staging.name
            /\ D = Variables("Match", m) \o Variables("Update", u)
                     \o Variables("Insert", ins) \o Variables("Subset", g)
            /\ \A i \in 1..Len(D) : BoundTo(statement, args, D[i]) = args[2 + i]
            /\ \A k \in 1..Len(m) : BoundTo(statement, args, <<"Match", str(k - 1)>>) = m[k]
            /\ \A k \in 1..Len(u) : BoundTo(statement, args, <<"Update", str(k - 1)>>) = u[k]
            /\ \A k \in 1..Len(ins) : BoundTo(statement, args, <<"Insert", str(k - 1)>>) = ins[k]
            /\ \A k \in 1..Len(g) : BoundTo(statement, args, <<"Subset", str(k - 1)>>) = g[k]
            /\ IsInjective(D)
            /\ Listed(statement) = D
            /\ Assigned(statement) = [i \in 1..Len(D) |-> <<D[i], D[i]>>]

C21_Witness ==
    /\ pc = "merged"
    /\ Len(MatchOf(call)) = 2
    /\ Len(update_columns(call.frame, MatchOf(call))) = 1
    /\ Len(insert_columns(call.frame)) = 3
    /\ Len(GuardsOf(call)) = 2
    /\ Len(args) = 10

(***************************************************************************)
(* Properties of prepare_time's rounding                                   *)
(***************************************************************************)

\* a time of day: at least 00:00:00 and less than one day
TimeOfDay(v) == v[1] = 0

\* the text rendered for the i-th value of column a
Wire(i) == prepped.data["a"].cells[i]

Assignments == Resolved(statement, args, statement.update_syntax)

\* C23: in every statement merge constructs, the UPDATE SET clause assigns
\* each dataframe column that is no match column once, from the source's
\* column of the same name, and it has at least one assignment, also when
\* the match columns are all the columns of the dataframe.
C23_UpdateSetNeverEmpty ==
    (pc \in {"merged", "raised"} /\ statement # NoStatement) =>
        LET u == update_columns(call.frame, MatchOf(call))
        IN  /\ Odd(Assignments) = u
            /\ Even(Assignments) = u
            /\ Odd(Assignments) # <<>>

(***************************************************************************)
(* Properties of get_schema's primary key                                  *)
(***************************************************************************)

\* C24: for a table named with its schema, the pk_seq get_schema attaches to
\* each column is the key_seq of that column in the table the columns were
\* read from: a table of the same name in another schema never marks a
\* column as part of the key, nor unmarks one.
C24_PrimaryKeyOfTheNamedTable ==
    (db.schema_name # "None" /\ pc # "get_schema") =>
        \A c \in DOMAIN schema : schema[c].pk_seq = db.key_seq[c]
====
